---- MODULE Spec2Model ----
(***************************************************************************)
(* A model of libqit.py: the repository layout, the object store, the      *)
(* commit/tag (kvlm) and tree codecs, name resolution, reference           *)
(* resolution and the log traversal.                                       *)
(*                                                                         *)
(* bytes and str values are sequences of character codes (0..255).         *)
(* Offsets are 0-based, as in the source: the element at offset i of s is  *)
(* s[i + 1]. A call that may raise returns a record whose field exc is     *)
(* "none" or names the exception.                                          *)
(***************************************************************************)
EXTENDS Integers, Sequences, FiniteSets, TLC

\* b' '
SP == 32
\* b'\n'
LF == 10
\* b'\x00'
NUL == 0
\* '/', the separator of os.path.join
SLASH == 47

\* b'.git', libqit.py:42
b_git ==
    <<46,103,105,116>>

\* b'config', libqit.py:49
b_config ==
    <<99,111,110,102,105,103>>

\* b'branches', libqit.py:100
b_branches ==
    <<98,114,97,110,99,104,101,115>>

\* b'objects', libqit.py:101
b_objects ==
    <<111,98,106,101,99,116,115>>

\* b'refs', libqit.py:102
b_refs ==
    <<114,101,102,115>>

\* b'tags', libqit.py:102
b_tags ==
    <<116,97,103,115>>

\* b'regs', libqit.py:103
b_regs ==
    <<114,101,103,115>>

\* b'heads', libqit.py:103
b_heads ==
    <<104,101,97,100,115>>

\* b'description', libqit.py:106
b_description ==
    <<100,101,115,99,114,105,112,116,105,111,110>>

\* b'HEAD', libqit.py:110
b_HEAD ==
    <<72,69,65,68>>

\* b"Unnamed repository; edit this file 'description' to name the repository.\n", libqit.py:107
DescriptionText ==
    <<85,110,110,97,109,101,100,32,114,101,112,111,115,105,116,111,114,121,59,32,101,100,105,116,32,116,104,105,115,32,102,105,108,101,32,39,100,101,115,99,114,105,112,116,105,111,110,39,32,116,111,32,110,97,109,101,32,116,104,101,32,114,101,112,111,115,105,116,111,114,121,46,10>>

\* b'ref: refs/heads/master\n', libqit.py:111
HeadText ==
    <<114,101,102,58,32,114,101,102,115,47,104,101,97,100,115,47,109,97,115,116,101,114,10>>

\* b'commit', libqit.py:197
b_commit ==
    <<99,111,109,109,105,116>>

\* b'tree', libqit.py:198
b_tree ==
    <<116,114,101,101>>

\* b'tag', libqit.py:199
b_tag ==
    <<116,97,103>>

\* b'blob', libqit.py:200
b_blob ==
    <<98,108,111,98>>

\* b'object', libqit.py:231
b_object ==
    <<111,98,106,101,99,116>>

\* b'parent', libqit.py:453
b_parent ==
    <<112,97,114,101,110,116>>

\* b'ref: ', libqit.py:582
b_ref_prefix ==
    <<114,101,102,58,32>>

\* b'c_', libqit.py:464
b_c_ ==
    <<99,95>>

\* b' -> c_', libqit.py:464
b_arrow ==
    <<32,45,62,32,99,95>>

\* b';', libqit.py:464
b_semi ==
    <<59>>

\* the text configparser writes for repo_default_config()
ConfigText ==
    <<91,99,111,114,101,93,10,114,101,112,111,115,105,116,111,114,121,102,111,114,109,97,116,118,101,114,115,105,111,110,32,61,32,48,10,102,105,108,101,109,111,100,101,32,61,32,102,97,108,115,101,10,98,97,114,101,32,61,32,102,97,108,115,101,10,10>>

\* Python's None, where a str, a bytes or a list is expected
None == <<-1>>

(***************************************************************************)
(* Python built-ins the source uses                                        *)
(***************************************************************************)
Min(a, b) == IF a < b THEN a ELSE b

Max(a, b) == IF a > b THEN a ELSE b

\* s[a:b]
slice(s, a, b) ==
    LET n == Len(s)
        lo == IF a < 0 THEN Max(a + n, 0) ELSE Min(a, n)
        hi == IF b < 0 THEN Max(b + n, 0) ELSE Min(b, n)
    IN SubSeq(s, lo + 1, hi)

\* s[a:]
slice_from(s, a) == slice(s, a, Len(s))

\* s.find(bytes([c]), start): the least offset >= start holding c, or -1
find(s, c, start) ==
    LET n == Len(s)
        lo == IF start < 0 THEN Max(start + n, 0) ELSE start
        hits == {i \in lo..(n - 1) : s[i + 1] = c}
    IN IF hits = {} THEN -1 ELSE CHOOSE i \in hits : \A j \in hits : i <= j

\* s.startswith(p)
startswith(s, p) == Len(s) >= Len(p) /\ SubSeq(s, 1, Len(p)) = p

\* s.replace(old, new), old not empty
RECURSIVE replace(_, _, _)
replace(s, old, new) ==
    IF Len(s) < Len(old) THEN s
    ELSE IF startswith(s, old)
         THEN new \o replace(SubSeq(s, Len(old) + 1, Len(s)), old, new)
         ELSE <<s[1]>> \o replace(Tail(s), old, new)

\* s.lower()
lower(s) == [i \in 1..Len(s) |-> IF s[i] \in 65..90 THEN s[i] + 32 ELSE s[i]]

\* s.strip(): leading and trailing white space removed
RECURSIVE strip(_)
strip(s) ==
    LET ws == {9, 10, 11, 12, 13, 32}
    IN IF s = <<>> THEN s
       ELSE IF s[1] \in ws THEN strip(Tail(s))
       ELSE IF s[Len(s)] \in ws THEN strip(SubSeq(s, 1, Len(s) - 1))
       ELSE s

\* str(n).encode("ascii"), n >= 0
RECURSIVE str(_)
str(n) == IF n < 10 THEN <<48 + n>> ELSE str(n \div 10) \o <<48 + (n % 10)>>

IsDigits(s) == s # <<>> /\ \A i \in 1..Len(s) : s[i] \in 48..57

RECURSIVE DigitsValue(_)
DigitsValue(s) ==
    IF s = <<>> THEN 0 ELSE 10 * DigitsValue(SubSeq(s, 1, Len(s) - 1)) + (s[Len(s)] - 48)

\* int(s.decode("ascii")): white space around the digits is ignored
int(s) ==
    IF IsDigits(strip(s)) THEN [exc |-> "none", val |-> DigitsValue(strip(s))]
    ELSE [exc |-> "ValueError", val |-> 0]

IsHexChar(c) == c \in (48..57) \cup (65..70) \cup (97..102)

\* re.compile(r"^[0-9A-Fa-f]{1,16}$").match(name): $ also matches before a final newline
hashRE_match(name) ==
    LET core == IF name # <<>> /\ name[Len(name)] = LF
                THEN SubSeq(name, 1, Len(name) - 1) ELSE name
    IN Len(core) \in 1..16 /\ \A i \in 1..Len(core) : IsHexChar(core[i])

(***************************************************************************)
(* Bounds of the model                                                     *)
(***************************************************************************)
\* the recursion depth at which the interpreter raises RecursionError
RecursionLimit == 12

\* the most headers of a generated commit or tag payload
MaxHeaders == 2

\* v bound to a name; the source's local variables are bound this way
With(v, K(_)) == K(v)

(***************************************************************************)
(* The file system: fs.dirs is the set of directories and fs.files maps    *)
(* each regular file to its content. Paths are str values.                 *)
(***************************************************************************)
\* os.path.join(a, b)
join(a, b) ==
    IF b # <<>> /\ b[1] = SLASH THEN b
    ELSE IF a = <<>> \/ a[Len(a)] = SLASH THEN a \o b
    ELSE a \o <<SLASH>> \o b

\* os.path.join(base, *parts)
RECURSIVE joinall(_, _)
joinall(base, parts) ==
    IF parts = <<>> THEN base ELSE joinall(join(base, Head(parts)), Tail(parts))

exists(fs, p) == p \in fs.dirs \/ p \in DOMAIN fs.files

isdir(fs, p) == p \in fs.dirs

\* the directories above p
ancestors(p) == {SubSeq(p, 1, i - 1) : i \in {j \in 2..Len(p) : p[j] = SLASH}}

\* os.listdir(p): the names directly under directory p
listdir(fs, p) ==
    {SubSeq(q, Len(p) + 2, Len(q)) :
        q \in {e \in fs.dirs \cup DOMAIN fs.files :
                  /\ Len(e) > Len(p) + 1
                  /\ SubSeq(e, 1, Len(p) + 1) = p \o <<SLASH>>
                  /\ \A i \in (Len(p) + 2)..Len(e) : e[i] # SLASH}}

\* os.makedirs(p)
makedirs(fs, p) ==
    IF exists(fs, p) THEN [exc |-> "FileExistsError", fs |-> fs]
    ELSE IF \E a \in ancestors(p) : a \in DOMAIN fs.files
         THEN [exc |-> "NotADirectoryError", fs |-> fs]
    ELSE [exc |-> "none",
          fs |-> [fs EXCEPT !.dirs = @ \cup ancestors(p) \cup {p}]]

\* with open(p, "w") as f: f.write(text)
write_file(fs, p, text) ==
    IF p = None THEN [exc |-> "TypeError", fs |-> fs]
    ELSE IF p \in fs.dirs THEN [exc |-> "IsADirectoryError", fs |-> fs]
    ELSE IF \E a \in ancestors(p) : a \in DOMAIN fs.files
         THEN [exc |-> "NotADirectoryError", fs |-> fs]
    ELSE IF \E a \in ancestors(p) : a \notin fs.dirs
         THEN [exc |-> "FileNotFoundError", fs |-> fs]
    ELSE [exc |-> "none",
          fs |-> [fs EXCEPT !.files =
                     [q \in DOMAIN @ \cup {p} |-> IF q = p THEN text ELSE @[q]]]]

\* with open(p) as f: f.read()
read_file(fs, p) ==
    IF p = None THEN [exc |-> "TypeError", val |-> <<>>]
    ELSE IF p \in fs.dirs THEN [exc |-> "IsADirectoryError", val |-> <<>>]
    ELSE IF p \notin DOMAIN fs.files THEN [exc |-> "FileNotFoundError", val |-> <<>>]
    ELSE [exc |-> "none", val |-> fs.files[p]]

(***************************************************************************)
(* The repository and the path layer                                       *)
(***************************************************************************)
\* Compute path under repo's gitdir.
repo_path(repo, path) == joinall(repo.gitdir, path)

\* Same as repo_path, but mkdir *path if absent if mkdir.
repo_dir(fs, repo, path, mkdir) ==
    With(repo_path(repo, path), LAMBDA p :
        IF exists(fs, p)
        THEN IF isdir(fs, p) THEN [exc |-> "none", val |-> p, fs |-> fs]
             ELSE [exc |-> "Not a directory", val |-> None, fs |-> fs]
        ELSE IF mkdir
             THEN With(makedirs(fs, p), LAMBDA m :
                      [exc |-> m.exc, val |-> IF m.exc = "none" THEN p ELSE None,
                       fs |-> m.fs])
             ELSE [exc |-> "none", val |-> None, fs |-> fs])

\* Same as repo_path, but create dirname(*path) if absent.
repo_file(fs, repo, path, mkdir) ==
    With(repo_dir(fs, repo, SubSeq(path, 1, Len(path) - 1), mkdir), LAMBDA d :
        IF d.exc = "none" /\ d.val # None
        THEN [exc |-> "none", val |-> repo_path(repo, path), fs |-> d.fs]
        ELSE [exc |-> d.exc, val |-> None, fs |-> d.fs])

\* int(self.conf.get("core", "repositoryformatversion")) of a configuration file
conf_version(text) ==
    IF text = ConfigText THEN [exc |-> "none", val |-> 0]
    ELSE [exc |-> "NoSectionError", val |-> -1]

\* the text parses as a configuration: it is empty or its first line is a
\* section header; the texts of the model hold no comment lines
conf_parses(text) == strip(text) = <<>> \/ strip(text)[1] = 91

\* self.conf.read([cf]): a file that cannot be opened is skipped, one that
\* does not start with a section header raises; val is the text that was read
conf_read(fs, cf) ==
    With(read_file(fs, cf), LAMBDA f :
        IF f.exc # "none" THEN [exc |-> "none", val |-> <<>>]
        ELSE IF conf_parses(f.val) THEN [exc |-> "none", val |-> f.val]
        ELSE [exc |-> "MissingSectionHeaderError", val |-> <<>>])

\* GitRepository.__init__(path, force)
GitRepository(fs, path, force) ==
    With([worktree |-> path, gitdir |-> join(path, b_git)], LAMBDA self :
        IF ~(force \/ isdir(fs, self.gitdir))
        THEN [exc |-> "Not a Git repository", val |-> self]
        ELSE \* read configuration file in .git/config
             With(repo_file(fs, self, <<b_config>>, FALSE), LAMBDA cf :
                 IF cf.exc # "none" THEN [exc |-> cf.exc, val |-> self]
                 ELSE IF cf.val # None /\ exists(fs, cf.val)
                      THEN With(conf_read(fs, cf.val), LAMBDA conf :
                               IF conf.exc # "none" THEN [exc |-> conf.exc, val |-> self]
                               ELSE IF force THEN [exc |-> "none", val |-> self]
                               ELSE \* check version
                                    With(conf_version(conf.val), LAMBDA vers :
                                        IF vers.exc # "none"
                                        THEN [exc |-> vers.exc, val |-> self]
                                        ELSE IF vers.val # 0
                                             THEN [exc |-> "Unsupported repositoryformatversion",
                                                   val |-> self]
                                             ELSE [exc |-> "none", val |-> self]))
                      ELSE IF ~force
                           THEN [exc |-> "Configuration file missing", val |-> self]
                           ELSE [exc |-> "none", val |-> self]))

\* the skeleton directories repo_create makes, in order
SkeletonDirs ==
    << <<b_branches>>, <<b_objects>>, <<b_refs, b_tags>>, <<b_regs, b_heads>> >>

\* the files repo_create writes, in order
SkeletonFiles ==
    << [name |-> b_description, text |-> DescriptionText],
       [name |-> b_HEAD, text |-> HeadText],
       [name |-> b_config, text |-> ConfigText] >>

\* assert repo_dir(repo, ..., mkdir=True), for each of dirs in turn
RECURSIVE make_dirs(_, _, _)
make_dirs(fs, repo, dirs) ==
    IF dirs = <<>> THEN [exc |-> "none", fs |-> fs]
    ELSE With(repo_dir(fs, repo, Head(dirs), TRUE), LAMBDA d :
             IF d.exc # "none" THEN [exc |-> d.exc, fs |-> d.fs]
             ELSE make_dirs(d.fs, repo, Tail(dirs)))

\* with open(repo_file(repo, name), "w") as f: f.write(text), for each of files in turn
RECURSIVE write_files(_, _, _)
write_files(fs, repo, files) ==
    IF files = <<>> THEN [exc |-> "none", fs |-> fs]
    ELSE With(repo_file(fs, repo, <<Head(files).name>>, FALSE), LAMBDA p :
             IF p.exc # "none" THEN [exc |-> p.exc, fs |-> p.fs]
             ELSE With(write_file(p.fs, p.val, Head(files).text), LAMBDA w :
                      IF w.exc # "none" THEN w
                      ELSE write_files(w.fs, repo, Tail(files))))

\* the part of repo_create that makes sure path either does not exist or is an empty dir
repo_create_check(fs, repo) ==
    IF exists(fs, repo.worktree)
    THEN IF ~isdir(fs, repo.worktree) THEN [exc |-> "is not a directory!", fs |-> fs]
         ELSE IF listdir(fs, repo.worktree) # {} THEN [exc |-> "is not empty!", fs |-> fs]
         ELSE [exc |-> "none", fs |-> fs]
    ELSE makedirs(fs, repo.worktree)

\* Create a new repository at path.
repo_create(fs, path) ==
    With(GitRepository(fs, path, TRUE), LAMBDA r :
        IF r.exc # "none" THEN [exc |-> r.exc, fs |-> fs]
        ELSE With(repo_create_check(fs, r.val), LAMBDA chk :
                 IF chk.exc # "none" THEN chk
                 ELSE With(make_dirs(chk.fs, r.val, SkeletonDirs), LAMBDA dirs :
                          IF dirs.exc # "none" THEN dirs
                          ELSE write_files(dirs.fs, r.val, SkeletonFiles))))

(***************************************************************************)
(* The kvlm codec. An OrderedDict is the sequence of its entries in        *)
(* insertion order; an entry holds its values in vals, and list tells      *)
(* whether the dict holds them as a list or as one bytes value.            *)
(***************************************************************************)
dict_has(dct, key) == \E i \in 1..Len(dct) : dct[i].key = key

dict_get(dct, key) == dct[CHOOSE i \in 1..Len(dct) : dct[i].key = key]

\* dct[key] = value: an existing key keeps its place, a new one comes last
dict_set(dct, key, vals, list) ==
    IF dict_has(dct, key)
    THEN [i \in 1..Len(dct) |->
             IF dct[i].key = key THEN [key |-> key, vals |-> vals, list |-> list]
             ELSE dct[i]]
    ELSE Append(dct, [key |-> key, vals |-> vals, list |-> list])

\* if key exists, append the value
dict_add(dct, key, value) ==
    IF dict_has(dct, key)
    THEN dict_set(dct, key, Append(dict_get(dct, key).vals, value), TRUE)
    ELSE dict_set(dct, key, <<value>>, FALSE)

\* the loop of kvlm_parse that finds a newline not followed by a space; again
\* tells that the search has already started over from the beginning once
RECURSIVE value_end(_, _, _)
value_end(raw, end, again) ==
    With(find(raw, LF, end + 1), LAMBDA e :
        IF e + 1 >= Len(raw) THEN [exc |-> "IndexError", val |-> e]
        ELSE IF raw[e + 2] # SP THEN [exc |-> "none", val |-> e]
        ELSE IF e = -1 /\ again THEN [exc |-> "nontermination", val |-> e]
        ELSE value_end(raw, e, again \/ e = -1))

RECURSIVE kvlm_parse(_, _, _)
kvlm_parse(raw, start, dct) ==
    \* search for space and newline
    With(find(raw, SP, start), LAMBDA spc :
    With(find(raw, LF, start), LAMBDA nl :
        IF spc < 0 \/ nl < spc
        THEN \* base case: a blank line, the remainder is the message
             IF nl # start THEN [exc |-> "AssertionError", val |-> dct]
             ELSE [exc |-> "none",
                   val |-> dict_set(dct, <<>>, <<slice_from(raw, start + 1)>>, FALSE)]
        ELSE \* recursive case: read a key-value pair and recurse
             With(value_end(raw, start, FALSE), LAMBDA end :
                 IF end.exc # "none" THEN [exc |-> end.exc, val |-> dct]
                 ELSE IF end.val + 1 <= start THEN [exc |-> "RecursionError", val |-> dct]
                 ELSE kvlm_parse(raw, end.val + 1,
                                 dict_add(dct, slice(raw, start, spc),
                                          \* drop the spaces
                                          replace(slice(raw, spc + 1, end.val),
                                                  <<LF, SP>>, <<LF>>))))))

\* ret += k + b" " + (v.replace(b"\n", b"\n ")) + b"\n", for v in val
RECURSIVE kvlm_fields(_, _)
kvlm_fields(k, val) ==
    IF val = <<>> THEN <<>>
    ELSE k \o <<SP>> \o replace(Head(val), <<LF>>, <<LF, SP>>) \o <<LF>>
         \o kvlm_fields(k, Tail(val))

\* the loop of kvlm_serialize over kvlm.keys(), from the i-th key on
RECURSIVE kvlm_serialize_from(_, _, _)
kvlm_serialize_from(kvlm, i, ret) ==
    IF i > Len(kvlm) THEN [exc |-> "none", val |-> None]
    ELSE IF kvlm[i].key = <<>>
         THEN \* skip the message for now
              kvlm_serialize_from(kvlm, i + 1, ret)
    ELSE IF ~dict_has(kvlm, <<>>) THEN [exc |-> "KeyError", val |-> None]
    ELSE \* the message is appended, and ret returned, inside the loop over the keys
         [exc |-> "none",
          val |-> ret \o kvlm_fields(kvlm[i].key, kvlm[i].vals)
                      \o <<LF>> \o dict_get(kvlm, <<>>).vals[1]]

kvlm_serialize(kvlm) == kvlm_serialize_from(kvlm, 1, <<>>)

(***************************************************************************)
(* The tree codec                                                          *)
(***************************************************************************)
HexDigit(d) == IF d < 10 THEN 48 + d ELSE 87 + d

RECURSIVE hex_of_bytes(_)
hex_of_bytes(b) ==
    IF b = <<>> THEN <<>>
    ELSE <<HexDigit(Head(b) \div 16), HexDigit(Head(b) % 16)>> \o hex_of_bytes(Tail(b))

RECURSIVE strip_zeros(_)
strip_zeros(s) ==
    IF s = <<>> THEN <<48>> ELSE IF s[1] = 48 THEN strip_zeros(Tail(s)) ELSE s

\* hex(int.from_bytes(b, "big"))[2:]: no leading zero is kept
hex_int(b) == strip_zeros(hex_of_bytes(b))

tree_parse_one(raw, start) ==
    \* find the space terminator of the mode
    With(find(raw, SP, start), LAMBDA x :
    \* find the NULL terminator of the path
    With(find(raw, NUL, x), LAMBDA y :
        IF x - start \notin {5, 6}
        THEN [exc |-> "AssertionError", pos |-> start,
              leaf |-> [mode |-> <<>>, path |-> <<>>, sha |-> <<>>]]
        ELSE [exc |-> "none", pos |-> y + 21,
              leaf |-> [mode |-> slice(raw, start, x), path |-> slice(raw, x + 1, y),
                        sha |-> hex_int(slice(raw, y + 1, y + 21))]]))

\* the loop of tree_parse, from offset pos on
RECURSIVE tree_parse_from(_, _, _)
tree_parse_from(raw, pos, ret) ==
    IF ~(pos < Len(raw)) THEN [exc |-> "none", val |-> ret]
    ELSE With(tree_parse_one(raw, pos), LAMBDA one :
             IF one.exc # "none" THEN [exc |-> one.exc, val |-> ret]
             ELSE IF one.pos <= pos THEN [exc |-> "nontermination", val |-> ret]
             ELSE tree_parse_from(raw, one.pos, Append(ret, one.leaf)))

tree_parse(raw) == tree_parse_from(raw, 0, <<>>)

\* sha += int(i.sha, 16) reads the local sha before any assignment
tree_serialize(items) ==
    IF items = <<>> THEN [exc |-> "none", val |-> <<>>]
    ELSE [exc |-> "UnboundLocalError", val |-> None]

(***************************************************************************)
(* Objects: GitBlob, GitTree, GitCommit and GitTag, told apart by fmt      *)
(***************************************************************************)
NoObject == [fmt |-> <<>>, kvlm |-> <<>>, blobdata |-> <<>>, items |-> <<>>]

\* c(repo, data): GitObject.__init__ calls the subclass's deserialize
deserialize(fmt, data) ==
    IF fmt = b_blob
    THEN [exc |-> "none", val |-> [NoObject EXCEPT !.fmt = fmt, !.blobdata = data]]
    ELSE IF fmt = b_tree
         THEN With(tree_parse(data), LAMBDA tr :
                  [exc |-> tr.exc, val |-> [NoObject EXCEPT !.fmt = fmt, !.items = tr.val]])
         ELSE With(kvlm_parse(data, 0, <<>>), LAMBDA kv :
                  [exc |-> kv.exc, val |-> [NoObject EXCEPT !.fmt = fmt, !.kvlm = kv.val]])

\* GitTree.serialize: tree.serialize(self) names a module that does not exist
GitTree_serialize(obj) == [exc |-> "NameError", val |-> None]

\* obj.serialize()
serialize(obj) ==
    IF obj.fmt = b_blob THEN [exc |-> "none", val |-> obj.blobdata]
    ELSE IF obj.fmt = b_tree THEN GitTree_serialize(obj)
    ELSE kvlm_serialize(obj.kvlm)

(***************************************************************************)
(* The objects of a stored repository (written by a conforming writer)     *)
(***************************************************************************)
\* "b6fc4c620b67d95f953a5c1c1230aaab5db5a1b0": sha1 of object Blob
HashBlob ==
    <<98,54,102,99,52,99,54,50,48,98,54,55,100,57,53,102,57,53,51,97,53,99,49,99,49,50,51,48,97,97,97,98,53,100,98,53,97,49,98,48>>

\* "42bb57d1e79cc0af4c2af35480fd5ca001630afc": sha1 of object Tree
HashTree ==
    <<52,50,98,98,53,55,100,49,101,55,57,99,99,48,97,102,52,99,50,97,102,51,53,52,56,48,102,100,53,99,97,48,48,49,54,51,48,97,102,99>>

\* "f2c8e804a55bfa475d4e2e6239c2fdc4cff48238": sha1 of object A
HashA ==
    <<102,50,99,56,101,56,48,52,97,53,53,98,102,97,52,55,53,100,52,101,50,101,54,50,51,57,99,50,102,100,99,52,99,102,102,52,56,50,51,56>>

\* "b76a76e3cfdd96977f0137ea448761a8eeab69fd": sha1 of object B
HashB ==
    <<98,55,54,97,55,54,101,51,99,102,100,100,57,54,57,55,55,102,48,49,51,55,101,97,52,52,56,55,54,49,97,56,101,101,97,98,54,57,102,100>>

\* "853a68eac697aae1e3415101364ff74b4eccdcb1": sha1 of object C
HashC ==
    <<56,53,51,97,54,56,101,97,99,54,57,55,97,97,101,49,101,51,52,49,53,49,48,49,51,54,52,102,102,55,52,98,52,101,99,99,100,99,98,49>>

\* "b4ab0303d6b585c5b5600b41875eea08a5325b52": sha1 of object D
HashD ==
    <<98,52,97,98,48,51,48,51,100,54,98,53,56,53,99,53,98,53,54,48,48,98,52,49,56,55,53,101,101,97,48,56,97,53,51,50,53,98,53,50>>

\* "7bb5a77822faae3f08ce1ae94d4734c00425e306": sha1 of object E
HashE ==
    <<55,98,98,53,97,55,55,56,50,50,102,97,97,101,51,102,48,56,99,101,49,97,101,57,52,100,52,55,51,52,99,48,48,52,50,53,101,51,48,54>>

\* "64335ad5de74224ccf514b14adfae105f95f0add": sha1 of object F
HashF ==
    <<54,52,51,51,53,97,100,53,100,101,55,52,50,50,52,99,99,102,53,49,52,98,49,52,97,100,102,97,101,49,48,53,102,57,53,102,48,97,100,100>>

\* "bf982d4f920debe8633e93b9bbfa723ea201b43c": sha1 of object G
HashG ==
    <<98,102,57,56,50,100,52,102,57,50,48,100,101,98,101,56,54,51,51,101,57,51,98,57,98,98,102,97,55,50,51,101,97,50,48,49,98,52,51,99>>

\* "66da232a81f9d593b08e703b197ba48c12f1fc91": sha1 of object T1
HashT1 ==
    <<54,54,100,97,50,51,50,97,56,49,102,57,100,53,57,51,98,48,56,101,55,48,51,98,49,57,55,98,97,52,56,99,49,50,102,49,102,99,57,49>>

\* "0c12c988d30a6940552fc7b2862dcee9247fdd4f": sha1 of object T2
HashT2 ==
    <<48,99,49,50,99,57,56,56,100,51,48,97,54,57,52,48,53,53,50,102,99,55,98,50,56,54,50,100,99,101,101,57,50,52,55,102,100,100,52,102>>

\* "f8a9ec2327fa649e82d6c6615d89c710b2642bda": sha1 of object T3
HashT3 ==
    <<102,56,97,57,101,99,50,51,50,55,102,97,54,52,57,101,56,50,100,54,99,54,54,49,53,100,56,57,99,55,49,48,98,50,54,52,50,98,100,97>>

\* "f67d7d654265e6b6236f74a19c018a6471b16108": sha1 of object P1
HashP1 ==
    <<102,54,55,100,55,100,54,53,52,50,54,53,101,54,98,54,50,51,54,102,55,52,97,49,57,99,48,49,56,97,54,52,55,49,98,49,54,49,48,56>>

\* "f67d7d237c07ed081c4caaf0eb5d0f7210b0aeca": sha1 of object P2
HashP2 ==
    <<102,54,55,100,55,100,50,51,55,99,48,55,101,100,48,56,49,99,52,99,97,97,102,48,101,98,53,100,48,102,55,50,49,48,98,48,97,101,99,97>>

\* "f67deb43de2c9477e3115b9416d13ba6a6ab407e": sha1 of object P3
HashP3 ==
    <<102,54,55,100,101,98,52,51,100,101,50,99,57,52,55,55,101,51,49,49,53,98,57,52,49,54,100,49,51,98,97,54,97,54,97,98,52,48,55,101>>

\* object Blob: b'blob 5\x00hello'
RawBlob ==
    <<98,108,111,98,32,53,0,104,101,108,108,111>>

\* object Tree: b'tree 29\x00100644 f\x00\xb6\xfcLb\x0bg\xd9_\x95:\\\x1c\x120\xaa\xab]\xb5\xa1\xb0'
RawTree ==
    <<116,114,101,101,32,50,57,0,49,48,48,54,52,52,32,102,0,182,252,76,98,11,103,217,95,149,58,92,28,18,48,170,171,93,181,161,176>>

\* object A: b'commit 49\x00tree 42bb57d1e79cc0af4c2af35480fd5ca001630afc\n\nA\n'
RawA ==
    <<99,111,109,109,105,116,32,52,57,0,116,114,101,101,32,52,50,98,98,53,55,100,49,101,55,57,99,99,48,97,102,52,99,50,97,102,51,53,52,56,48,102,100,53,99,97,48,48,49,54,51,48,97,102,99,10,10,65,10>>

\* object B: b'commit 97\x00tree 42bb57d1e79cc0af4c2af35480fd5ca001630afc\nparent f2c8e804a55bfa475d4e2e6239c2fdc4cff48238\n\nB\n'
RawB ==
    <<99,111,109,109,105,116,32,57,55,0,116,114,101,101,32,52,50,98,98,53,55,100,49,101,55,57,99,99,48,97,102,52,99,50,97,102,51,53,52,56,48,102,100,53,99,97,48,48,49,54,51,48,97,102,99,10,112,97,114,101,110,116,32,102,50,99,56,101,56,48,52,97,53,53,98,102,97,52,55,53,100,52,101,50,101,54,50,51,57,99,50,102,100,99,52,99,102,102,52,56,50,51,56,10,10,66,10>>

\* object C: b'commit 97\x00tree 42bb57d1e79cc0af4c2af35480fd5ca001630afc\nparent f2c8e804a55bfa475d4e2e6239c2fdc4cff48238\n\nC\n'
RawC ==
    <<99,111,109,109,105,116,32,57,55,0,116,114,101,101,32,52,50,98,98,53,55,100,49,101,55,57,99,99,48,97,102,52,99,50,97,102,51,53,52,56,48,102,100,53,99,97,48,48,49,54,51,48,97,102,99,10,112,97,114,101,110,116,32,102,50,99,56,101,56,48,52,97,53,53,98,102,97,52,55,53,100,52,101,50,101,54,50,51,57,99,50,102,100,99,52,99,102,102,52,56,50,51,56,10,10,67,10>>

\* object D: b'commit 145\x00tree 42bb57d1e79cc0af4c2af35480fd5ca001630afc\nparent b76a76e3cfdd96977f0137ea448761a8eeab69fd\nparent 853a68eac697aae1e3415101364ff74b4eccdcb1\n\nD\n'
RawD ==
    <<99,111,109,109,105,116,32,49,52,53,0,116,114,101,101,32,52,50,98,98,53,55,100,49,101,55,57,99,99,48,97,102,52,99,50,97,102,51,53,52,56,48,102,100,53,99,97,48,48,49,54,51,48,97,102,99,10,112,97,114,101,110,116,32,98,55,54,97,55,54,101,51,99,102,100,100,57,54,57,55,55,102,48,49,51,55,101,97,52,52,56,55,54,49,97,56,101,101,97,98,54,57,102,100,10,112,97,114,101,110,116,32,56,53,51,97,54,56,101,97,99,54,57,55,97,97,101,49,101,51,52,49,53,49,48,49,51,54,52,102,102,55,52,98,52,101,99,99,100,99,98,49,10,10,68,10>>

\* object E: b'commit 145\x00tree 42bb57d1e79cc0af4c2af35480fd5ca001630afc\nparent b4ab0303d6b585c5b5600b41875eea08a5325b52\nparent f2c8e804a55bfa475d4e2e6239c2fdc4cff48238\n\nE\n'
RawE ==
    <<99,111,109,109,105,116,32,49,52,53,0,116,114,101,101,32,52,50,98,98,53,55,100,49,101,55,57,99,99,48,97,102,52,99,50,97,102,51,53,52,56,48,102,100,53,99,97,48,48,49,54,51,48,97,102,99,10,112,97,114,101,110,116,32,98,52,97,98,48,51,48,51,100,54,98,53,56,53,99,53,98,53,54,48,48,98,52,49,56,55,53,101,101,97,48,56,97,53,51,50,53,98,53,50,10,112,97,114,101,110,116,32,102,50,99,56,101,56,48,52,97,53,53,98,102,97,52,55,53,100,52,101,50,101,54,50,51,57,99,50,102,100,99,52,99,102,102,52,56,50,51,56,10,10,69,10>>

\* object F: b'commit 49\x00tree 42bb57d1e79cc0af4c2af35480fd5ca001630afc\n\nF\n'
RawF ==
    <<99,111,109,109,105,116,32,52,57,0,116,114,101,101,32,52,50,98,98,53,55,100,49,101,55,57,99,99,48,97,102,52,99,50,97,102,51,53,52,56,48,102,100,53,99,97,48,48,49,54,51,48,97,102,99,10,10,70,10>>

\* object G: b'commit 145\x00tree 42bb57d1e79cc0af4c2af35480fd5ca001630afc\nparent 7bb5a77822faae3f08ce1ae94d4734c00425e306\nparent 64335ad5de74224ccf514b14adfae105f95f0add\n\nG\n'
RawG ==
    <<99,111,109,109,105,116,32,49,52,53,0,116,114,101,101,32,52,50,98,98,53,55,100,49,101,55,57,99,99,48,97,102,52,99,50,97,102,51,53,52,56,48,102,100,53,99,97,48,48,49,54,51,48,97,102,99,10,112,97,114,101,110,116,32,55,98,98,53,97,55,55,56,50,50,102,97,97,101,51,102,48,56,99,101,49,97,101,57,52,100,52,55,51,52,99,48,48,52,50,53,101,51,48,54,10,112,97,114,101,110,116,32,54,52,51,51,53,97,100,53,100,101,55,52,50,50,52,99,99,102,53,49,52,98,49,52,97,100,102,97,101,49,48,53,102,57,53,102,48,97,100,100,10,10,71,10>>

\* object T1: b'tag 71\x00object 7bb5a77822faae3f08ce1ae94d4734c00425e306\ntype commit\ntag v1\n\nv1\n'
RawT1 ==
    <<116,97,103,32,55,49,0,111,98,106,101,99,116,32,55,98,98,53,97,55,55,56,50,50,102,97,97,101,51,102,48,56,99,101,49,97,101,57,52,100,52,55,51,52,99,48,48,52,50,53,101,51,48,54,10,116,121,112,101,32,99,111,109,109,105,116,10,116,97,103,32,118,49,10,10,118,49,10>>

\* object T2: b'tag 68\x00object 66da232a81f9d593b08e703b197ba48c12f1fc91\ntype tag\ntag v2\n\nv2\n'
RawT2 ==
    <<116,97,103,32,54,56,0,111,98,106,101,99,116,32,54,54,100,97,50,51,50,97,56,49,102,57,100,53,57,51,98,48,56,101,55,48,51,98,49,57,55,98,97,52,56,99,49,50,102,49,102,99,57,49,10,116,121,112,101,32,116,97,103,10,116,97,103,32,118,50,10,10,118,50,10>>

\* object T3: b'tag 69\x00object b6fc4c620b67d95f953a5c1c1230aaab5db5a1b0\ntype blob\ntag v3\n\nv3\n'
RawT3 ==
    <<116,97,103,32,54,57,0,111,98,106,101,99,116,32,98,54,102,99,52,99,54,50,48,98,54,55,100,57,53,102,57,53,51,97,53,99,49,99,49,50,51,48,97,97,97,98,53,100,98,53,97,49,98,48,10,116,121,112,101,32,98,108,111,98,10,116,97,103,32,118,51,10,10,118,51,10>>

\* object P1: b'blob 4\x00n470'
RawP1 ==
    <<98,108,111,98,32,52,0,110,52,55,48>>

\* object P2: b'blob 5\x00n2763'
RawP2 ==
    <<98,108,111,98,32,53,0,110,50,55,54,51>>

\* object P3: b'blob 5\x00n1184'
RawP3 ==
    <<98,108,111,98,32,53,0,110,49,49,56,52>>

\* the objects of the stored repository, each named by the SHA-1 of its bytes
StoredObjects ==
    <<[sha |-> HashBlob, raw |-> RawBlob],
      [sha |-> HashTree, raw |-> RawTree],
      [sha |-> HashA, raw |-> RawA],
      [sha |-> HashB, raw |-> RawB],
      [sha |-> HashC, raw |-> RawC],
      [sha |-> HashD, raw |-> RawD],
      [sha |-> HashE, raw |-> RawE],
      [sha |-> HashF, raw |-> RawF],
      [sha |-> HashG, raw |-> RawG],
      [sha |-> HashT1, raw |-> RawT1],
      [sha |-> HashT2, raw |-> RawT2],
      [sha |-> HashT3, raw |-> RawT3],
      [sha |-> HashP1, raw |-> RawP1],
      [sha |-> HashP2, raw |-> RawP2],
      [sha |-> HashP3, raw |-> RawP3]>>

(***************************************************************************)
(* The object store                                                        *)
(***************************************************************************)
\* zlib.compress(b): the two-byte zlib header, then the stream
zlib_compress(b) == <<120, 156>> \o b

\* zlib.decompress(z)
zlib_decompress(z) ==
    IF Len(z) >= 2 /\ SubSeq(z, 1, 2) = <<120, 156>>
    THEN [exc |-> "none", val |-> SubSeq(z, 3, Len(z))]
    ELSE [exc |-> "zlib.error", val |-> <<>>]

\* the sum of the bytes of b from the i-th on, each weighted by w times its place
RECURSIVE weighted_sum(_, _, _)
weighted_sum(b, i, w) ==
    IF i > Len(b) THEN 0
    ELSE ((b[i] + 1) * (1 + w * i) + weighted_sum(b, i + 1, w)) % 65536

\* a digest of sums s0 and s1: 40 lower-case hexadecimal digits
digest(s0, s1) == [j \in 1..40 |-> HexDigit((s1 + j * s0 + j * j) % 16)]

\* hashlib.sha1(b).hexdigest(): 40 lower-case hexadecimal digits that depend on
\* every byte of b. The digest of a stored object is its name in the store;
\* any other digest is a function of the bytes that stands for SHA-1's.
sha1(b) ==
    IF \E i \in 1..Len(StoredObjects) : StoredObjects[i].raw = b
    THEN StoredObjects[CHOOSE i \in 1..Len(StoredObjects) : StoredObjects[i].raw = b].sha
    ELSE digest(weighted_sum(b, 1, 0), weighted_sum(b, 1, 1))

\* the part of object_read that parses the decompressed bytes raw
object_parse(raw) ==
    \* read object type
    With(find(raw, SP, 0), LAMBDA x :
    \* read and validate object size
    With(find(raw, NUL, x), LAMBDA y :
    With(int(slice(raw, x, y)), LAMBDA size :
        IF size.exc # "none" THEN [exc |-> size.exc, val |-> NoObject]
        ELSE IF size.val # Len(raw) - y - 1
             THEN [exc |-> "Malformed object", val |-> NoObject]
        \* pick constructor
        ELSE IF slice(raw, 0, x) \notin {b_commit, b_tree, b_tag, b_blob}
             THEN [exc |-> "Unknown type", val |-> NoObject]
        ELSE deserialize(slice(raw, 0, x), slice_from(raw, y + 1)))))

\* Read object object_id from Git repository repo.
object_read(fs, repo, sha) ==
    With(repo_file(fs, repo, <<b_objects, slice(sha, 0, 2), slice_from(sha, 2)>>, FALSE),
         LAMBDA path :
        IF path.exc # "none" THEN [exc |-> path.exc, val |-> NoObject]
        ELSE With(read_file(fs, path.val), LAMBDA f :
                 IF f.exc # "none" THEN [exc |-> f.exc, val |-> NoObject]
                 ELSE With(zlib_decompress(f.val), LAMBDA raw :
                          IF raw.exc # "none" THEN [exc |-> raw.exc, val |-> NoObject]
                          ELSE object_parse(raw.val))))

\* the part of object_write that stores result under its hash sha
object_store(fs, repo, sha, result, data) ==
    \* compute path
    With(repo_file(fs, repo, <<b_objects, slice(sha, 0, 2), slice_from(sha, 2)>>, TRUE),
         LAMBDA path :
        IF path.exc # "none"
        THEN [exc |-> path.exc, val |-> None, fs |-> path.fs, data |-> data]
        ELSE \* compress and write
             With(write_file(path.fs, path.val, zlib_compress(result)), LAMBDA w :
                 [exc |-> w.exc, val |-> IF w.exc = "none" THEN sha ELSE None,
                  fs |-> w.fs, data |-> data]))

\* object_write(obj, actually_write); repo is obj.repo. data is the serialization
object_write(fs, repo, obj, actually_write) ==
    \* serialize object data
    With(serialize(obj), LAMBDA data :
        IF data.exc # "none"
        THEN [exc |-> data.exc, val |-> None, fs |-> fs, data |-> None]
        ELSE IF data.val = None
             THEN [exc |-> "TypeError", val |-> None, fs |-> fs, data |-> None]
        ELSE \* add header
             With(obj.fmt \o <<SP>> \o str(Len(data.val)) \o <<NUL>> \o data.val,
                  LAMBDA result :
             \* compute hash
             With(sha1(result), LAMBDA sha :
                 IF actually_write THEN object_store(fs, repo, sha, result, data.val)
                 ELSE [exc |-> "none", val |-> sha, fs |-> fs, data |-> data.val])))

\* object_hash(fd, fmt, repo): data is fd.read(), write is bool(repo)
object_hash(fs, repo, data, fmt, write) ==
    IF fmt \notin {b_commit, b_tree, b_tag, b_blob}
    THEN [exc |-> "Unknown type", val |-> None, fs |-> fs, data |-> None]
    ELSE \* choose constructor based on object type
         With(deserialize(fmt, data), LAMBDA obj :
             IF obj.exc # "none"
             THEN [exc |-> obj.exc, val |-> None, fs |-> fs, data |-> None]
             ELSE object_write(fs, repo, obj.val, write))

(***************************************************************************)
(* References                                                              *)
(***************************************************************************)
\* a faulty ref_resolve that returns what the file holds and follows nothing
ref_resolve_unfollowed(fs, repo, ref, depth) ==
    With(repo_file(fs, repo, <<ref>>, FALSE), LAMBDA path :
        IF path.exc # "none" THEN [exc |-> path.exc, val |-> None, hops |-> depth]
        ELSE With(read_file(fs, path.val), LAMBDA fp :
            IF fp.exc # "none" THEN [exc |-> fp.exc, val |-> None, hops |-> depth]
            ELSE [exc |-> "none", val |-> slice(fp.val, 0, -1), hops |-> depth]))

\* ref_resolve(repo, ref), entered at recursion depth depth; hops counts the
\* "ref: " indirections followed. Recursion deeper than RecursionLimit ends
\* with the interpreter's RecursionError.
RECURSIVE ref_resolve(_, _, _, _)
ref_resolve(fs, repo, ref, depth) ==
    IF depth > RecursionLimit THEN [exc |-> "RecursionError", val |-> None, hops |-> depth]
    ELSE With(repo_file(fs, repo, <<ref>>, FALSE), LAMBDA path :
        IF path.exc # "none" THEN [exc |-> path.exc, val |-> None, hops |-> depth]
        ELSE With(read_file(fs, path.val), LAMBDA fp :
            IF fp.exc # "none" THEN [exc |-> fp.exc, val |-> None, hops |-> depth]
            ELSE \* discard the trailing newline
                 With(slice(fp.val, 0, -1), LAMBDA data :
                     IF startswith(data, b_ref_prefix)
                     THEN ref_resolve(fs, repo, slice_from(data, 5), depth + 1)
                     ELSE [exc |-> "none", val |-> data, hops |-> depth])))

(***************************************************************************)
(* Name resolution                                                         *)
(***************************************************************************)
RECURSIVE lex_less(_, _)
lex_less(a, b) ==
    IF b = <<>> THEN FALSE
    ELSE IF a = <<>> THEN TRUE
    ELSE IF a[1] # b[1] THEN a[1] < b[1]
    ELSE lex_less(Tail(a), Tail(b))

\* the names of a directory listing as a list, in name order
RECURSIVE listing(_)
listing(names) ==
    IF names = {} THEN <<>>
    ELSE With(CHOOSE n \in names : \A o \in names \ {n} : lex_less(n, o), LAMBDA m :
             <<m>> \o listing(names \ {m}))

\* [prefix + f for f in fl if f.startswith(rem)]
RECURSIVE matching(_, _, _)
matching(prefix, rem, fl) ==
    IF fl = <<>> THEN <<>>
    ELSE (IF startswith(Head(fl), rem) THEN <<prefix \o Head(fl)>> ELSE <<>>)
         \o matching(prefix, rem, Tail(fl))

\* the branch of object_resolve for a name of 4 characters or more that hashRE matches
object_resolve_short(fs, repo, name) ==
    With(slice(name, 0, 2), LAMBDA prefix :
    With(repo_dir(fs, repo, <<b_objects, prefix>>, FALSE), LAMBDA path :
        IF path.exc # "none" THEN [exc |-> path.exc, none |-> FALSE, val |-> <<>>]
        ELSE IF path.val # None
             THEN [exc |-> "none", none |-> FALSE,
                   val |-> matching(prefix, slice_from(name, 2),
                                    listing(listdir(fs, path.val)))]
             ELSE [exc |-> "none", none |-> FALSE, val |-> <<>>]))

\* resolve name to an object hash in repo; none tells that None is returned
object_resolve(fs, repo, name) ==
    \* empty string?
    IF strip(name) = <<>> THEN [exc |-> "none", none |-> TRUE, val |-> <<>>]
    \* HEAD
    ELSE IF name = b_HEAD
         THEN With(ref_resolve(fs, repo, b_HEAD, 0), LAMBDA head :
                  [exc |-> head.exc, none |-> FALSE,
                   val |-> IF head.exc = "none" THEN <<head.val>> ELSE <<>>])
    ELSE IF hashRE_match(name)
         THEN IF Len(name) = 40
              THEN \* complete hash
                   [exc |-> "none", none |-> FALSE, val |-> <<lower(name)>>]
              ELSE IF Len(name) >= 4
                   THEN \* minimal length for hash is 4
                        object_resolve_short(fs, repo, lower(name))
                   ELSE [exc |-> "none", none |-> FALSE, val |-> <<>>]
         ELSE [exc |-> "none", none |-> FALSE, val |-> <<>>]

\* sha = obj.kvlm[key].decode("ascii")
kvlm_hash(kvlm, key) ==
    IF ~dict_has(kvlm, key) THEN [exc |-> "KeyError", val |-> None]
    ELSE IF dict_get(kvlm, key).list THEN [exc |-> "AttributeError", val |-> None]
    ELSE [exc |-> "none", val |-> dict_get(kvlm, key).vals[1]]

\* a faulty loop of object_find that checks the type and follows nothing
object_find_unpeeled(fs, repo, sha, fmt, follow) ==
    With(object_read(fs, repo, sha), LAMBDA obj :
        IF obj.exc # "none" THEN [exc |-> obj.exc, none |-> FALSE, val |-> <<>>]
        ELSE IF obj.val.fmt = fmt THEN [exc |-> "none", none |-> FALSE, val |-> sha]
        ELSE [exc |-> "none", none |-> TRUE, val |-> <<>>])

\* the while True loop of object_find, entered with sha
RECURSIVE object_find_peel(_, _, _, _, _)
object_find_peel(fs, repo, sha, fmt, follow) ==
    With(object_read(fs, repo, sha), LAMBDA obj :
        IF obj.exc # "none" THEN [exc |-> obj.exc, none |-> FALSE, val |-> <<>>]
        ELSE IF obj.val.fmt = fmt THEN [exc |-> "none", none |-> FALSE, val |-> sha]
        ELSE IF ~follow THEN [exc |-> "none", none |-> TRUE, val |-> <<>>]
        \* follow tags
        ELSE IF obj.val.fmt = b_tag \/ (obj.val.fmt = b_commit /\ fmt = b_tree)
             THEN With(kvlm_hash(obj.val.kvlm,
                                 IF obj.val.fmt = b_tag THEN b_object ELSE b_tree),
                       LAMBDA next :
                      IF next.exc # "none"
                      THEN [exc |-> next.exc, none |-> FALSE, val |-> <<>>]
                      ELSE object_find_peel(fs, repo, next.val, fmt, follow))
        ELSE [exc |-> "none", none |-> TRUE, val |-> <<>>])

\* a faulty object_find that takes the first of several candidates
object_find_first(fs, repo, name, fmt, follow) ==
    With(object_resolve(fs, repo, name), LAMBDA sha :
        IF sha.exc # "none"
        THEN [exc |-> sha.exc, none |-> FALSE, val |-> <<>>, sha |-> sha.val]
        ELSE IF sha.none \/ sha.val = <<>>
             THEN [exc |-> "No such reference", none |-> FALSE, val |-> <<>>,
                   sha |-> sha.val]
        ELSE IF fmt = None \/ fmt = <<>>
             THEN [exc |-> "none", none |-> FALSE, val |-> sha.val[1], sha |-> sha.val]
        ELSE With(object_find_peel(fs, repo, sha.val[1], fmt, follow), LAMBDA r :
                 [exc |-> r.exc, none |-> r.none, val |-> r.val, sha |-> sha.val]))

\* object_find(repo, name, fmt, follow); fmt is None when no type is expected.
\* sha holds the candidates object_resolve returned
object_find(fs, repo, name, fmt, follow) ==
    With(object_resolve(fs, repo, name), LAMBDA sha :
        IF sha.exc # "none"
        THEN [exc |-> sha.exc, none |-> FALSE, val |-> <<>>, sha |-> sha.val]
        ELSE IF sha.none \/ sha.val = <<>>
             THEN [exc |-> "No such reference", none |-> FALSE, val |-> <<>>,
                   sha |-> sha.val]
        ELSE IF Len(sha.val) > 1
             THEN [exc |-> "Ambiguous referene", none |-> FALSE, val |-> <<>>,
                   sha |-> sha.val]
        ELSE IF fmt = None \/ fmt = <<>>
             THEN [exc |-> "none", none |-> FALSE, val |-> sha.val[1], sha |-> sha.val]
        ELSE With(object_find_peel(fs, repo, sha.val[1], fmt, follow), LAMBDA r :
                 [exc |-> r.exc, none |-> r.none, val |-> r.val, sha |-> sha.val]))

(***************************************************************************)
(* The repositories the commands start from                                *)
(***************************************************************************)
\* the path the commands are run on
Path ==
    <<119>>

\* b'refs/heads/main'
ref_main ==
    <<114,101,102,115,47,104,101,97,100,115,47,109,97,105,110>>

\* b'refs/heads/c1'
ref_c1 ==
    <<114,101,102,115,47,104,101,97,100,115,47,99,49>>

\* b'refs/heads/c2'
ref_c2 ==
    <<114,101,102,115,47,104,101,97,100,115,47,99,50>>

\* b'refs/heads/c3'
ref_c3 ==
    <<114,101,102,115,47,104,101,97,100,115,47,99,51>>

\* b'refs/heads/x'
ref_x ==
    <<114,101,102,115,47,104,101,97,100,115,47,120>>

\* b'refs/heads/y'
ref_y ==
    <<114,101,102,115,47,104,101,97,100,115,47,121>>

\* b'refs/heads/self'
ref_self ==
    <<114,101,102,115,47,104,101,97,100,115,47,115,101,108,102>>

\* b'refs/heads/lost'
ref_lost ==
    <<114,101,102,115,47,104,101,97,100,115,47,108,111,115,116>>

\* b'refs/heads/gone', a reference that has no file
ref_gone ==
    <<114,101,102,115,47,104,101,97,100,115,47,103,111,110,101>>

\* b'hello'
b_hello ==
    <<104,101,108,108,111>>

\* b'new'
b_new ==
    <<110,101,119>>

\* b'master'
b_master ==
    <<109,97,115,116,101,114>>

EmptyFiles == [p \in {} |-> <<>>]

\* "ref: <ref>\n"
RefTo(ref) == b_ref_prefix \o ref \o <<LF>>

\* "<hash>\n"
HashLine(sha) == sha \o <<LF>>

GitDir == join(Path, b_git)

StoredRepo == [worktree |-> Path, gitdir |-> GitDir]

ObjectPath(sha) ==
    repo_path(StoredRepo, <<b_objects, slice(sha, 0, 2), slice_from(sha, 2)>>)

\* the reference files of a stored repository: main holds a hash, c3 -> c2 -> c1 ->
\* main is a chain, x -> y -> x and self -> self are cycles, lost names no file
StoredRefs ==
    (ref_main :> HashLine(HashE))
    @@ (ref_c1 :> RefTo(ref_main)) @@ (ref_c2 :> RefTo(ref_c1)) @@ (ref_c3 :> RefTo(ref_c2))
    @@ (ref_x :> RefTo(ref_y)) @@ (ref_y :> RefTo(ref_x))
    @@ (ref_self :> RefTo(ref_self)) @@ (ref_lost :> RefTo(ref_gone))

\* a stored repository whose HEAD holds head
StoredFs(head) ==
    LET objs == {StoredObjects[i] : i \in 1..Len(StoredObjects)}
        refs == [p \in {repo_path(StoredRepo, <<r>>) : r \in DOMAIN StoredRefs} |->
                    StoredRefs[CHOOSE r \in DOMAIN StoredRefs :
                                  repo_path(StoredRepo, <<r>>) = p]]
        meta == (repo_path(StoredRepo, <<b_HEAD>>) :> head)
                @@ (repo_path(StoredRepo, <<b_config>>) :> ConfigText)
                @@ (repo_path(StoredRepo, <<b_description>>) :> DescriptionText)
        objfiles == [p \in {ObjectPath(o.sha) : o \in objs} |->
                        zlib_compress((CHOOSE o \in objs : ObjectPath(o.sha) = p).raw)]
    IN [dirs |-> {Path, GitDir}
                 \cup {repo_path(StoredRepo, d) :
                          d \in {<<b_branches>>, <<b_objects>>, <<b_refs>>,
                                 <<b_refs, b_tags>>, <<b_refs, b_heads>>}}
                 \cup {repo_path(StoredRepo, <<b_objects, slice(o.sha, 0, 2)>>) : o \in objs},
        files |-> meta @@ refs @@ objfiles]

\* what HEAD holds: a branch, the head of a chain of references, a hash, a cycle
StoredHeads == {RefTo(ref_main), RefTo(ref_c3), HashLine(HashD), RefTo(ref_x)}

InitialFs ==
    { [dirs |-> {}, files |-> EmptyFiles],                           \* no such path
      [dirs |-> {}, files |-> (Path :> b_hello)],                    \* a regular file
      [dirs |-> {Path}, files |-> EmptyFiles],                       \* an empty directory
      [dirs |-> {Path}, files |-> (join(Path, b_hello) :> b_hello)], \* a directory with a file
      [dirs |-> {Path}, files |-> (GitDir :> b_hello)],              \* .git is a regular file
      [dirs |-> {Path, GitDir},                                      \* .git/config is no configuration
       files |-> (join(GitDir, b_config) :> b_hello)]
    } \cup {StoredFs(head) : head \in StoredHeads}

(***************************************************************************)
(* The inputs of the commands                                              *)
(***************************************************************************)
payload_of(raw) == slice_from(raw, find(raw, NUL, 0) + 1)

HeaderKeys == {b_tree, b_parent}

\* header values as they stand in a payload: "a", and "b" continued by "c"
HeaderValues == {<<97>>, <<98, LF, SP, 99>>}

\* messages: none, "m\n", and "a b" without a final newline
Messages == {<<>>, <<109, LF>>, <<97, SP, 98>>}

Header(k, v) == k \o <<SP>> \o v \o <<LF>>

RECURSIVE Headers(_)
Headers(n) ==
    IF n = 0 THEN {<<>>}
    ELSE {Header(k, v) \o rest : k \in HeaderKeys, v \in HeaderValues, rest \in Headers(n - 1)}

\* canonically formatted payloads of 1..MaxHeaders headers, a blank line and a message
KvlmPayloads ==
    {hs \o <<LF>> \o m : hs \in UNION {Headers(n) : n \in 1..MaxHeaders}, m \in Messages}

\* what hash-object is run on
HashInputs ==
    {[fmt |-> fmt, data |-> x] : fmt \in {b_commit, b_tag}, x \in KvlmPayloads}
    \cup {[fmt |-> b_blob, data |-> b_hello], [fmt |-> b_blob, data |-> b_new],
          [fmt |-> b_tree, data |-> payload_of(RawTree)],
          [fmt |-> b_commit, data |-> payload_of(RawA)],
          [fmt |-> b_commit, data |-> payload_of(RawB)],
          [fmt |-> b_tag, data |-> payload_of(RawT1)]}

\* what hash-object -w is run on
WriteInputs == {i \in HashInputs : i.data \notin KvlmPayloads}

upper(s) == [i \in 1..Len(s) |-> IF s[i] \in 97..122 THEN s[i] - 32 ELSE s[i]]

NameLengths == {3, 4, 6, 16, 17, 39, 40}

\* a hash no stored object has
HashNone == [i \in 1..40 |-> 48]

HashNames ==
    {SubSeq(h, 1, n) : h \in {HashP1, HashP3, HashBlob, HashE, HashT2, HashNone},
                       n \in NameLengths}

\* the names handed to object_find
FindNames ==
    {b_HEAD, <<>>, <<SP>>, b_master} \cup HashNames
    \cup {upper(SubSeq(h, 1, n)) : h \in {HashP1, HashE}, n \in {6, 17, 40}}

\* the names object_find is run on with an expected type
PeelNames ==
    {b_HEAD} \cup {SubSeq(h, 1, 6) : h \in {HashBlob, HashTree, HashA, HashE, HashT1, HashT2, HashT3}}

ObjectTypes == {b_blob, b_tree, b_commit, b_tag}

FindCalls ==
    {[name |-> n, fmt |-> None, follow |-> TRUE] : n \in FindNames}
    \cup {[name |-> n, fmt |-> f, follow |-> fl] :
             n \in PeelNames, f \in ObjectTypes, fl \in BOOLEAN}

RefNames ==
    {b_HEAD, ref_main, ref_c1, ref_c2, ref_c3, ref_x, ref_y, ref_self, ref_lost, ref_gone}

\* the stored commits, and a tag, a blob and a missing object
LogStarts == {HashA, HashB, HashC, HashD, HashE, HashF, HashG, HashT1, HashBlob, HashNone}

(***************************************************************************)
(* The state: the file system, and the command being run. Each command is  *)
(* one run of the program, which then exits.                               *)
(***************************************************************************)
VARIABLES fs, pc, last, log

vars == <<fs, pc, last, log>>

NoCall == [op |-> "none"]

IdleLog ==
    [start |-> <<>>, stack |-> <<>>, seen |-> {}, out |-> <<>>, read |-> <<>>, objs |-> <<>>]

Init ==
    /\ fs \in InitialFs
    /\ pc = "ready"
    /\ last = NoCall
    /\ log = IdleLog

\* init
RepoCreate ==
    /\ pc = "ready"
    /\ \E r \in {repo_create(fs, Path)} :
          /\ fs' = r.fs
          /\ last' = [op |-> "repo_create", exc |-> r.exc, before |-> fs]
    /\ pc' = "done"
    /\ UNCHANGED log

\* hash-object [-w] -t fmt: the repository is opened only to be written to
ObjectHash(in, write) ==
    /\ pc = "ready"
    /\ write => in \in WriteInputs
    /\ \E repo \in {GitRepository(fs, Path, FALSE)} :
          /\ write => repo.exc = "none"
          /\ \E r \in {object_hash(fs, repo.val, in.data, in.fmt, write)} :
                /\ fs' = r.fs
                /\ last' = [op |-> "object_hash", fmt |-> in.fmt, data |-> in.data,
                            write |-> write, exc |-> r.exc, val |-> r.val, out |-> r.data]
    /\ pc' = "done"
    /\ UNCHANGED log

\* rev-parse, cat-file, ls-tree, checkout, log: object_find(repo, name, fmt, follow)
ObjectFind(c) ==
    /\ pc = "ready"
    /\ \E repo \in {GitRepository(fs, Path, FALSE)} :
          /\ repo.exc = "none"
          /\ \E r \in {object_find(fs, repo.val, c.name, c.fmt, c.follow)} :
                last' = [op |-> "object_find", name |-> c.name, fmt |-> c.fmt,
                         follow |-> c.follow, exc |-> r.exc, none |-> r.none,
                         val |-> r.val, sha |-> r.sha]
    /\ pc' = "done"
    /\ UNCHANGED <<fs, log>>

\* ref_resolve(repo, ref)
RefResolve(ref) ==
    /\ pc = "ready"
    /\ \E repo \in {GitRepository(fs, Path, FALSE)} :
          /\ repo.exc = "none"
          /\ \E r \in {ref_resolve(fs, repo.val, ref, 0)} :
                last' = [op |-> "ref_resolve", ref |-> ref, exc |-> r.exc, val |-> r.val,
                         hops |-> r.hops]
    /\ pc' = "done"
    /\ UNCHANGED <<fs, log>>

(***************************************************************************)
(* log_graphviz(repo, sha, seen), one activation at a time: stack holds    *)
(* the activations, the innermost last; an activation is at "call" before  *)
(* its body runs and at "loop" inside for p in parents, about to take      *)
(* parents[i]. out holds the lines printed and read the objects read. The  *)
(* store does not change while the traversal runs: objs holds what         *)
(* object_read gives for each object of the store during it.               *)
(***************************************************************************)
\* the hashes that name the files under objects/
object_ids(f, repo) ==
    UNION {{d \o o : o \in listdir(f, repo_path(repo, <<b_objects, d>>))} :
              d \in listdir(f, repo_path(repo, <<b_objects>>))}

LogCall(sha) ==
    /\ pc = "ready"
    /\ \E repo \in {GitRepository(fs, Path, FALSE)} :
          /\ repo.exc = "none"
          /\ log' = [start |-> sha,
                     stack |-> <<[sha |-> sha, at |-> "call", parents |-> <<>>, i |-> 0]>>,
                     seen |-> {}, out |-> <<>>, read |-> <<>>,
                     objs |-> [o \in object_ids(fs, repo.val) \cup {sha} |->
                                  object_read(fs, repo.val, o)]]
    /\ pc' = "log"
    /\ UNCHANGED <<fs, last>>

\* the traversal ends: by the outermost return, or by an exception
LogEnd(exc, l) ==
    /\ pc' = "done"
    /\ last' = [op |-> "log_graphviz", start |-> l.start, exc |-> exc,
                seen |-> l.seen, out |-> l.out, read |-> l.read]
    /\ log' = IdleLog

\* return from the innermost activation
LogReturn(l) ==
    IF Len(l.stack) = 1 THEN LogEnd("none", l)
    ELSE /\ log' = [l EXCEPT !.stack = SubSeq(@, 1, Len(@) - 1)]
         /\ UNCHANGED <<pc, last>>

\* the activation goes on to the loop over parents
LogParents(l, sha, parents) ==
    /\ log' = [l EXCEPT !.stack[Len(l.stack)] =
                            [sha |-> sha, at |-> "loop", parents |-> parents, i |-> 1]]
    /\ UNCHANGED <<pc, last>>

\* a faulty test that takes no commit as seen
log_seen_never(sha, seen) == FALSE

\* if sha in seen
log_seen(sha, seen) == sha \in seen

\* "c_{0} -> c_{1};".format(sha, p)
log_edge(sha, p) == b_c_ \o sha \o b_arrow \o p \o b_semi

\* commit = object_read(repo, sha)
log_read(l, sha) ==
    IF sha \in DOMAIN l.objs THEN l.objs[sha]
    ELSE object_read(fs, [worktree |-> Path, gitdir |-> join(Path, b_git)], sha)

\* the body of log_graphviz, with sha added to seen and commit read, up to the loop
log_body(l, sha, commit) ==
    IF commit.exc # "none" THEN LogEnd(commit.exc, l)
    ELSE IF commit.val.fmt # b_commit
         THEN LogEnd("AssertionError", [l EXCEPT !.read = Append(@, sha)])
    ELSE IF ~dict_has(commit.val.kvlm, b_parent)
         THEN \* base case: initial commit
              LogReturn([l EXCEPT !.read = Append(@, sha)])
    ELSE LogParents([l EXCEPT !.read = Append(@, sha)], sha,
                    dict_get(commit.val.kvlm, b_parent).vals)

\* an activation of log_graphviz starts
LogEnter ==
    /\ pc = "log"
    /\ log.stack[Len(log.stack)].at = "call"
    /\ \E sha \in {log.stack[Len(log.stack)].sha} :
          IF log_seen(sha, log.seen) THEN LogReturn(log)
          ELSE log_body([log EXCEPT !.seen = @ \cup {sha}], sha, log_read(log, sha))
    /\ UNCHANGED fs

\* print the edge to parent p and call log_graphviz(repo, p, seen)
LogVisit(l, f, p) ==
    /\ log' = [l EXCEPT !.out = Append(@, log_edge(f.sha, p)),
                        !.stack = Append([@ EXCEPT ![Len(l.stack)].i = f.i + 1],
                                         [sha |-> p, at |-> "call", parents |-> <<>>,
                                          i |-> 0])]
    /\ UNCHANGED <<pc, last>>

\* one turn of for p in parents
LogLoop ==
    /\ pc = "log"
    /\ log.stack[Len(log.stack)].at = "loop"
    /\ \E f \in {log.stack[Len(log.stack)]} :
          IF f.i > Len(f.parents) THEN LogReturn(log)
          ELSE LogVisit(log, f, f.parents[f.i])
    /\ UNCHANGED fs

LogStep == LogEnter \/ LogLoop

\* the program exits
Exit ==
    /\ pc = "done"
    /\ pc' = "ready"
    /\ last' = NoCall
    /\ UNCHANGED <<fs, log>>

Next ==
    \/ RepoCreate
    \/ \E in \in HashInputs, write \in BOOLEAN : ObjectHash(in, write)
    \/ \E c \in FindCalls : ObjectFind(c)
    \/ \E ref \in RefNames : RefResolve(ref)
    \/ \E sha \in LogStarts : LogCall(sha)
    \/ LogEnter
    \/ LogLoop
    \/ Exit

Spec == Init /\ [][Next]_vars

\* the program is sequential: a traversal that can take a step takes it
FairSpec == Spec /\ WF_vars(LogStep)

(***************************************************************************)
(* The properties                                                          *)
(***************************************************************************)
\* the names directly under the directory objects/<first two characters of name>
ObjectFilesFor(name) ==
    listdir(fs, repo_path(StoredRepo, <<b_objects, slice(name, 0, 2)>>))

IsHexName(name) == \A i \in 1..Len(name) : IsHexChar(name[i])

\* the path repo_create ran on did not exist or was an empty directory
FreshPath(before) ==
    \/ ~exists(before, Path)
    \/ isdir(before, Path) /\ listdir(before, Path) = {}

\* C1: after repo_create(path) succeeds on a path that does not exist or is an
\* empty directory, path/.git contains the directories branches, objects,
\* refs/tags and refs/heads, and a file HEAD that holds exactly
\* "ref: refs/heads/master\n".
C1_SkeletonCreated ==
    (last.op = "repo_create" /\ last.exc = "none" /\ FreshPath(last.before))
    => /\ \A d \in {<<b_branches>>, <<b_objects>>, <<b_refs, b_tags>>, <<b_refs, b_heads>>} :
             isdir(fs, repo_path(StoredRepo, d))
       /\ read_file(fs, repo_path(StoredRepo, <<b_HEAD>>)) = [exc |-> "none", val |-> HeadText]

\* C2: for every canonically formatted commit or tag payload x,
\* kvlm_serialize(kvlm_parse(x)) equals x byte for byte: every header is
\* emitted, in first-appearance order, and the message follows exactly once.
C2_KvlmRoundTrip ==
    (last.op = "object_hash" /\ last.fmt \in {b_commit, b_tag} /\ last.data \in KvlmPayloads)
    => /\ last.exc = "none"
       /\ last.out = last.data

\* C3: for every object type and every well-formed payload, object_write with
\* actually_write=True of the object constructed from them returns a hash h
\* such that object_read(repo, h) succeeds and yields the object of that type
\* with that payload.
C3_WriteReadRoundTrip ==
    (last.op = "object_hash" /\ last.write)
    => /\ last.exc = "none"
       /\ object_read(fs, StoredRepo, last.val) = deserialize(last.fmt, last.data)

\* C4: with no expected type, what object_find does is decided by the number
\* of candidates object_resolve returns: none fails with the "No such
\* reference" error, exactly one is the result, and more than one fails with
\* the "Ambiguous referene" error, which lists the candidates.
C4_FindByCandidateCount ==
    (last.op = "object_find" /\ last.fmt = None
        /\ object_resolve(fs, StoredRepo, last.name).exc = "none")
    => LET sha == object_resolve(fs, StoredRepo, last.name)
       IN  /\ (sha.none \/ Len(sha.val) = 0) => last.exc = "No such reference"
           /\ (~sha.none /\ Len(sha.val) = 1) => (last.exc = "none" /\ ~last.none
                                                   /\ last.val = sha.val[1])
           /\ (~sha.none /\ Len(sha.val) > 1) => (last.exc = "Ambiguous referene"
                                                   /\ last.sha = sha.val)

\* a name that three stored hashes begin with was refused as ambiguous
C4_Witness ==
    /\ last.op = "object_find" /\ last.fmt = None
    /\ last.name = SubSeq(HashP1, 1, 4)
    /\ last.exc = "Ambiguous referene" /\ Len(last.sha) = 3

\* C5: for every name that is a hexadecimal string of length 40, in any letter
\* case, object_resolve returns exactly one candidate, the name in lower case,
\* whatever the store holds.
C5_FullHashResolves ==
    (last.op = "object_find" /\ Len(last.name) = 40 /\ IsHexName(last.name))
    => last.sha = <<lower(last.name)>>

\* C6: for every name that is a hexadecimal string of length 4 to 39,
\* object_resolve returns exactly the hashes name[0:2] + filename of the files
\* under objects/<name[0:2]>/ whose name begins with name[2:]: every stored
\* hash the name is a prefix of, and nothing else.
C6_PrefixResolves ==
    (last.op = "object_find" /\ Len(last.name) \in 4..39 /\ IsHexName(last.name))
    => /\ {last.sha[i] : i \in 1..Len(last.sha)} =
             {slice(lower(last.name), 0, 2) \o f :
                 f \in {g \in ObjectFilesFor(lower(last.name)) :
                           startswith(g, slice_from(lower(last.name), 2))}}
       /\ \A i, j \in 1..Len(last.sha) : last.sha[i] = last.sha[j] => i = j

\* the reference the file of ref points to, when it holds "ref: <next>\n"
ref_next(ref) ==
    fs.files[repo_path(StoredRepo, <<ref>>)]

\* the file of ref exists
HasRef(ref) == repo_path(StoredRepo, <<ref>>) \in DOMAIN fs.files

\* the file of ref holds an indirection "ref: <next>\n"
IsIndirect(ref) ==
    /\ HasRef(ref)
    /\ startswith(ref_next(ref), b_ref_prefix)
    /\ ref_next(ref)[Len(ref_next(ref))] = LF

\* the reference n indirections away from ref; None when there is no such one
RECURSIVE RefAfter(_, _)
RefAfter(ref, n) ==
    IF n = 0 THEN ref
    ELSE IF ref = None \/ ~IsIndirect(ref) THEN None
    ELSE RefAfter(SubSeq(ref_next(ref), 6, Len(ref_next(ref)) - 1), n - 1)

\* ref heads a chain of n indirections that ends in a file holding "<hash>\n"
IsChain(ref, n) ==
    /\ RefAfter(ref, n) # None
    /\ HasRef(RefAfter(ref, n))
    /\ ~IsIndirect(RefAfter(ref, n))
    /\ ref_next(RefAfter(ref, n)) # <<>>
    /\ ref_next(RefAfter(ref, n))[Len(ref_next(RefAfter(ref, n)))] = LF

\* the hash such a chain ends in
ChainHash(ref, n) ==
    SubSeq(ref_next(RefAfter(ref, n)), 1, Len(ref_next(RefAfter(ref, n))) - 1)

\* the chain lengths looked at
MaxChain == 4

\* following the indirections from ref comes back to a reference already met
IsCycle(ref) ==
    \E i \in 0..MaxChain, j \in 1..(MaxChain + 1) :
        /\ i < j
        /\ RefAfter(ref, j) # None
        /\ RefAfter(ref, i) = RefAfter(ref, j)

\* C7: for an acyclic chain of reference files, each but the last holding
\* "ref: <next>\n" and the last holding "<hash>\n", ref_resolve on the first
\* reference returns the hash without the newline, whatever the chain length;
\* so HEAD holding "ref: refs/heads/main\n" resolves to the hash in
\* refs/heads/main.
C7_ChainResolves ==
    last.op = "ref_resolve"
    => \A n \in 0..MaxChain :
          IsChain(last.ref, n) => (last.exc = "none" /\ last.val = ChainHash(last.ref, n))

\* HEAD was resolved through four indirections to the hash of refs/heads/main
C7_Witness ==
    /\ last.op = "ref_resolve" /\ last.ref = b_HEAD
    /\ IsChain(b_HEAD, 4)
    /\ last.exc = "none" /\ last.val = HashE /\ last.hops = 4

\* C8: ref_resolve always terminates: when the reference files form an
\* indirection cycle, resolution stops after a fixed number of indirections
\* (a depth cap, such as 10) and fails with the RefCycle error instead of
\* following the cycle without bound.
C8_CycleRefused ==
    (last.op = "ref_resolve" /\ IsCycle(last.ref))
    => (last.exc = "RefCycle" /\ last.hops <= 10)

\* the commits of the store and their parents, in header order
CommitParents ==
    (HashA :> <<>>) @@ (HashB :> <<HashA>>) @@ (HashC :> <<HashA>>)
    @@ (HashD :> <<HashB, HashC>>) @@ (HashE :> <<HashD, HashA>>)
    @@ (HashF :> <<>>) @@ (HashG :> <<HashE, HashF>>)

ParentSet(c) == {CommitParents[c][i] : i \in 1..Len(CommitParents[c])}

\* the commits reachable from those of S
RECURSIVE Reachable(_)
Reachable(S) ==
    IF UNION {ParentSet(c) : c \in S} \subseteq S THEN S
    ELSE Reachable(S \cup UNION {ParentSet(c) : c \in S})

\* how many times e occurs in s
Occurrences(s, e) == Cardinality({i \in 1..Len(s) : s[i] = e})

\* the store holds the commits reachable from start as they were stored
CommitsStored(start) ==
    \A c \in Reachable({start}) :
        /\ ObjectPath(c) \in DOMAIN fs.files
        /\ \E i \in 1..Len(StoredObjects) :
              /\ StoredObjects[i].sha = c
              /\ fs.files[ObjectPath(c)] = zlib_compress(StoredObjects[i].raw)

\* a traversal from a stored commit has ended: it read each commit reachable
\* from the start once and nothing else, and printed each edge once
LogVisitsOnce ==
    (last.op = "log_graphviz" /\ last.start \in DOMAIN CommitParents
        /\ CommitsStored(last.start))
    => /\ last.exc = "none"
       /\ \A c \in Reachable({last.start}) : Occurrences(last.read, c) = 1
       /\ \A i \in 1..Len(last.read) : last.read[i] \in Reachable({last.start})
       /\ \A c \in Reachable({last.start}) :
             /\ \A p \in ParentSet(c) : Occurrences(last.out, log_edge(c, p)) = 1
             /\ ParentSet(c) = {} => \A i \in 1..Len(last.out) :
                                        ~startswith(last.out[i], b_c_ \o c \o b_arrow)
       /\ \A i \in 1..Len(last.out) :
             \E c \in Reachable({last.start}) :
                \E p \in ParentSet(c) : last.out[i] = log_edge(c, p)

\* C9: for every commit DAG in the store and every start commit, log_graphviz
\* terminates, reads and expands each commit reachable from the start exactly
\* once, even one reachable along several paths, and prints exactly one edge
\* per (commit, parent) pair among them; a commit without a parent header
\* prints no edge.
C9_LogTraversal ==
    /\ [](LogVisitsOnce)
    /\ (pc = "log") ~> (pc = "done")

\* the traversal from the merge G ended: 7 commits read, A met along 4 paths
C9_Witness ==
    /\ last.op = "log_graphviz" /\ last.start = HashG
    /\ last.exc = "none"
    /\ Len(last.read) = 7 /\ Len(last.out) = 8

\* the types of the stored objects object_find is run on with an expected type
StoredType ==
    (HashBlob :> b_blob) @@ (HashTree :> b_tree) @@ (HashA :> b_commit)
    @@ (HashD :> b_commit) @@ (HashE :> b_commit)
    @@ (HashT1 :> b_tag) @@ (HashT2 :> b_tag) @@ (HashT3 :> b_tag)

\* the hash in the object header of a stored tag
TagObject == (HashT1 :> HashE) @@ (HashT2 :> HashT1) @@ (HashT3 :> HashBlob)

\* the result of peeling sha to type fmt: <<h>> for hash h, <<>> for no result
RECURSIVE Peeled(_, _, _)
Peeled(sha, fmt, follow) ==
    IF StoredType[sha] = fmt THEN <<sha>>
    ELSE IF ~follow THEN <<>>
    ELSE IF StoredType[sha] = b_tag THEN Peeled(TagObject[sha], fmt, follow)
    ELSE IF StoredType[sha] = b_commit /\ fmt = b_tree THEN Peeled(HashTree, fmt, follow)
    ELSE <<>>

\* the store holds the objects of StoredType as they were stored
ObjectsStored ==
    \A i \in 1..Len(StoredObjects) :
        StoredObjects[i].sha \in DOMAIN StoredType
        => /\ ObjectPath(StoredObjects[i].sha) \in DOMAIN fs.files
           /\ fs.files[ObjectPath(StoredObjects[i].sha)] = zlib_compress(StoredObjects[i].raw)

\* C10: given an expected type and a name that resolves to a single hash,
\* object_find peels: an object of the expected type gives its hash;
\* otherwise, with follow=True, a tag is replaced by the hash in its object
\* header and a commit, when a tree is expected, by the hash in its tree
\* header, until an object of the expected type is reached (its hash is the
\* result) or one that cannot be followed (no result); with follow=False an
\* object of another type gives no result.
C10_Peels ==
    (last.op = "object_find" /\ last.fmt # None /\ Len(last.sha) = 1
        /\ last.sha[1] \in DOMAIN StoredType /\ ObjectsStored)
    => /\ last.exc = "none"
       /\ Peeled(last.sha[1], last.fmt, last.follow) =
             (IF last.none THEN <<>> ELSE <<last.val>>)

\* the tag of a tag of a commit was peeled to the tree of the commit
C10_Witness ==
    /\ last.op = "object_find" /\ last.fmt = b_tree /\ last.follow
    /\ last.sha = <<HashT2>>
    /\ last.exc = "none" /\ ~last.none /\ last.val = HashTree

\* the NotADirectory errors: of repo_create and of repo_dir
NotADirectory == {"is not a directory!", "Not a directory"}

\* repo_create ran on a path that held a directory with something in it
NonEmptyPath(before) == isdir(before, Path) /\ listdir(before, Path) # {}

\* C11: repo_create(path) on a path that exists and is not a directory, or
\* that is a non-empty directory, fails, with NotADirectory and NotEmpty
\* respectively, and leaves the file system unchanged: no .git directory,
\* skeleton directory, HEAD, description or config file is created under path.
C11_FailureLeavesFsUnchanged ==
    last.op = "repo_create"
    => /\ (exists(last.before, Path) /\ ~isdir(last.before, Path))
             => (last.exc \in NotADirectory /\ fs = last.before)
       /\ NonEmptyPath(last.before)
             => (last.exc = "is not empty!" /\ fs = last.before)

====
